---- MODULE Spec2Model ----
(***************************************************************************)
(* State machines of the canvas editor's Redux slices:                     *)
(*   - the viewport slice (zoom, pan, interaction mode),                   *)
(*   - the shapes slice (normalized shape store, selection, frame counter),*)
(*   - the projects slice (project list of the dashboard and its total).   *)
(* Every reducer is one action.  JavaScript numbers are modelled as exact  *)
(* rationals <<n, d>> (d > 0, lowest terms); floating-point rounding is    *)
(* not modelled.                                                           *)
(***************************************************************************)
EXTENDS Integers, Sequences, FiniteSets, TLC

VARIABLES
  \* ---- viewport slice (ViewportState) ----
  scale, minScale, maxScale, translate, mode,
  panStartScreen, panStartTranslate, wheelPanSpeed, zoomStep,
  \* ---- shapes slice (ShapesState) ----
  tool, ids, entities, selected, frameCounter,
  \* ---- projects slice (ProjectsState) ----
  projects, total, isLoading, error, lastFetched, isCreating, createError,
  \* ---- name of the reducer that produced the current state ----
  last

vvars == <<scale, minScale, maxScale, translate, mode,
           panStartScreen, panStartTranslate, wheelPanSpeed, zoomStep>>
svars == <<tool, ids, entities, selected, frameCounter>>
pvars == <<projects, total, isLoading, error, lastFetched, isCreating, createError>>
vars == <<vvars, svars, pvars, last>>

(***************************************************************************)
(* Bounds of the model.                                                    *)
(***************************************************************************)
\* translate is followed on the grid (50 k, 25 j) for |k|, |j| <= MaxGrid
MaxGrid == 2
\* largest number of live shapes in the general shape-store model
MaxShapes == 2
\* largest number of live frames in the frames-only model
MaxFrames == 3
\* largest value of frameCounter in the general shape-store model
MaxFrameCounter == 2

(***************************************************************************)
(* Exact rational arithmetic for JavaScript numbers.                       *)
(***************************************************************************)
Abs(n) == IF n < 0 THEN -n ELSE n

RECURSIVE Gcd(_, _)
Gcd(a, b) == IF b = 0 THEN a ELSE Gcd(b, a % b)

\* the rational n/d in lowest terms with a positive denominator
R(n, d) ==
  LET s == IF d < 0 THEN -1 ELSE 1
      g == Gcd(Abs(n), Abs(d))
  IN <<(s * n) \div g, (s * d) \div g>>

Num(i) == <<i, 1>>
RAdd(a, b) == R(a[1] * b[2] + b[1] * a[2], a[2] * b[2])
RSub(a, b) == R(a[1] * b[2] - b[1] * a[2], a[2] * b[2])
RMul(a, b) == R(a[1] * b[1], a[2] * b[2])
RDiv(a, b) == R(a[1] * b[2], a[2] * b[1])
\* a <= b, comparing integer parts first so that the products stay small
RLe(a, b) ==
  LET qa == a[1] \div a[2]
      qb == b[1] \div b[2]
  IN IF qa # qb THEN qa < qb
     ELSE (a[1] % a[2]) * b[2] <= (b[1] % b[2]) * a[2]
RLt(a, b) == ~RLe(b, a)
\* Math.min and Math.max of two numbers
RMin(a, b) == IF RLe(a, b) THEN a ELSE b
RMax(a, b) == IF RLe(a, b) THEN b ELSE a

\* Math.pow(base, k) for an integer exponent k
RECURSIVE RPow(_, _)
RPow(base, k) ==
  IF k = 0 THEN Num(1)
  ELSE IF k < 0 THEN RDiv(Num(1), RPow(base, -k))
  ELSE RMul(base, RPow(base, k - 1))

Pt(px, py) == [x |-> Num(px), y |-> Num(py)]
\* JavaScript null / an absent optional payload field
Null == [null |-> TRUE]
Absent == [undefined |-> TRUE]
\* an absent optional number / an absent optional mode
AbsentNum == <<>>
AbsentMode == "undefined"

(***************************************************************************)
(* Viewport slice: utility functions.                                      *)
(***************************************************************************)
\* clamp without its upper bound
clampNoMax(v, min, max) == RMax(min, v)

clamp(v, min, max) == RMin(max, RMax(min, v))

screenToWorld(screen, tr, sc) ==
  [x |-> RDiv(RSub(screen.x, tr.x), sc),
   y |-> RDiv(RSub(screen.y, tr.y), sc)]

worldToScreen(world, tr, sc) ==
  [x |-> RAdd(RMul(world.x, sc), tr.x),
   y |-> RAdd(RMul(world.y, sc), tr.y)]

\* zoomAroundScreenPoint that takes the screen point itself for the world point
zoomAroundScreenPointNoWorld(originScreen, newScale, currentTranslate, currentScale) ==
  [x |-> RSub(originScreen.x, RMul(originScreen.x, newScale)),
   y |-> RSub(originScreen.y, RMul(originScreen.y, newScale))]

zoomAroundScreenPoint(originScreen, newScale, currentTranslate, currentScale) ==
  LET worldAtOrigin == screenToWorld(originScreen, currentTranslate, currentScale)
  IN [x |-> RSub(originScreen.x, RMul(worldAtOrigin.x, newScale)),
      y |-> RSub(originScreen.y, RMul(worldAtOrigin.y, newScale))]

(***************************************************************************)
(* Inputs of the viewport reducers.                                        *)
(***************************************************************************)
ViewportModes == {"idle", "panning", "shiftPanning"}
ScreenPts == {Pt(0, 0), Pt(100, 50)}
TranslateArgs == {Pt(0, 0), Pt(-100, -50)}
ScaleArgs == {Num(-1), Num(2), Num(100)}
Factors == {Num(0), R(1, 2), Num(2), Num(100)}
\* wheel deltas; multiples of 53 make zoomStep ^ (-deltaY / 53) rational
DeltaYs == {-53, 53}
WheelDeltas == {[dx |-> Num(100), dy |-> Num(50)], [dx |-> Num(-200), dy |-> Num(-100)]}
WorldPts == {Pt(50, 25), Pt(100, 50)}
BoundsArgs ==
  {[x |-> Num(0), y |-> Num(0), width |-> Num(200), height |-> Num(100)],
   [x |-> Num(-1000), y |-> Num(1500), width |-> Num(10000), height |-> Num(1000)],
   [x |-> Num(50), y |-> Num(25), width |-> Num(0), height |-> Num(0)],
   [x |-> Num(-100), y |-> Num(-50), width |-> Num(200), height |-> Num(100)]}
ViewportPxArgs ==
  {[width |-> Num(1000), height |-> Num(500)],
   [width |-> Num(100), height |-> Num(50)]}
PaddingArgs == {AbsentNum, Num(0)}

\* the translate values the model follows
GridPts ==
  {[x |-> Num(50 * k), y |-> Num(25 * j)] : k, j \in -MaxGrid .. MaxGrid}
PtInGrid(p) == p \in GridPts
\* the scale values the model follows
ScalesFollowed ==
  {R(1, 10), R(1, 2), Num(1), R(53, 50), Num(2), Num(4), Num(5), Num(8)}

(***************************************************************************)
(* Viewport slice: initial state and reducers.                             *)
(***************************************************************************)
ViewportInit ==
  /\ scale = Num(1)
  /\ minScale = R(1, 10)
  /\ maxScale = Num(8)
  /\ translate = Pt(0, 0)
  /\ mode = "idle"
  /\ panStartScreen = Null
  /\ panStartTranslate = Null
  /\ wheelPanSpeed = R(1, 2)
  /\ zoomStep = R(106, 100)

\* every reducer leaves the bounds and the tunables alone
Tunables == <<minScale, maxScale, wheelPanSpeed, zoomStep>>
Drag == <<mode, panStartScreen, panStartTranslate>>

setTranslate(p) ==
  /\ translate' = [x |-> p.x, y |-> p.y]
  /\ last' = "setTranslate" /\ UNCHANGED pvars
  /\ UNCHANGED <<scale, Drag, Tunables, svars>>

setScale(s, originScreen) ==
  LET clamped == clamp(s, minScale, maxScale)
  IN /\ translate' = IF originScreen # Absent
                       THEN zoomAroundScreenPoint(originScreen, clamped, translate, scale)
                       ELSE translate
     /\ scale' = clamped
     /\ last' = "setScale" /\ UNCHANGED pvars
     /\ UNCHANGED <<Drag, Tunables, svars>>

zoomBy(factor, originScreen) ==
  LET next == clamp(RMul(scale, factor), minScale, maxScale)
  IN /\ translate' = zoomAroundScreenPoint(originScreen, next, translate, scale)
     /\ scale' = next
     /\ last' = "zoomBy" /\ UNCHANGED pvars
     /\ UNCHANGED <<Drag, Tunables, svars>>

wheelZoom(deltaY, originScreen) ==
  LET factor == RPow(zoomStep, (-deltaY) \div 53)
      next == clamp(RMul(scale, factor), minScale, maxScale)
  IN /\ translate' = zoomAroundScreenPoint(originScreen, next, translate, scale)
     /\ scale' = next
     /\ last' = "wheelZoom" /\ UNCHANGED pvars
     /\ UNCHANGED <<Drag, Tunables, svars>>

\* wheelPan that ends the drag in progress
wheelPanEndsDrag(d) ==
  /\ translate' = [x |-> RAdd(translate.x, RMul(d.dx, wheelPanSpeed)),
                   y |-> RAdd(translate.y, RMul(d.dy, wheelPanSpeed))]
  /\ mode' = "idle"
  /\ panStartScreen' = Null
  /\ panStartTranslate' = Null
  /\ last' = "wheelPan" /\ UNCHANGED pvars
  /\ UNCHANGED <<scale, Tunables, svars>>

wheelPan(d) ==
  /\ translate' = [x |-> RAdd(translate.x, RMul(d.dx, wheelPanSpeed)),
                   y |-> RAdd(translate.y, RMul(d.dy, wheelPanSpeed))]
  /\ last' = "wheelPan" /\ UNCHANGED pvars
  /\ UNCHANGED <<scale, Drag, Tunables, svars>>

\* panStart that starts a drag only from idle
panStartOnlyIdle(screen, m) ==
  /\ IF mode = "idle"
       THEN /\ mode' = IF m = AbsentMode THEN "panning" ELSE m
            /\ panStartScreen' = screen
            /\ panStartTranslate' = [x |-> translate.x, y |-> translate.y]
       ELSE UNCHANGED <<mode, panStartScreen, panStartTranslate>>
  /\ last' = "panStart" /\ UNCHANGED pvars
  /\ UNCHANGED <<scale, translate, minScale, maxScale, wheelPanSpeed, zoomStep, svars>>

panStart(screen, m) ==
  /\ mode' = IF m = AbsentMode THEN "panning" ELSE m
  /\ panStartScreen' = screen
  /\ panStartTranslate' = [x |-> translate.x, y |-> translate.y]
  /\ last' = "panStart" /\ UNCHANGED pvars
  /\ UNCHANGED <<scale, translate, Tunables, svars>>

\* panMove that adds the delta to the current translate
panMoveIncremental(p) ==
  /\ IF mode \in {"panning", "shiftPanning"} /\ panStartScreen # Null
       THEN translate' = [x |-> RAdd(translate.x, RSub(p.x, panStartScreen.x)),
                          y |-> RAdd(translate.y, RSub(p.y, panStartScreen.y))]
       ELSE UNCHANGED translate
  /\ last' = "panMove" /\ UNCHANGED pvars
  /\ UNCHANGED <<scale, mode, panStartScreen, panStartTranslate,
                 minScale, maxScale, wheelPanSpeed, zoomStep, svars>>

\* panMove that looks at the anchors only, not at the mode
panMoveNoModeCheck(p) ==
  /\ IF panStartScreen = Null \/ panStartTranslate = Null
       THEN UNCHANGED translate
       ELSE translate' = [x |-> RAdd(panStartTranslate.x, RSub(p.x, panStartScreen.x)),
                          y |-> RAdd(panStartTranslate.y, RSub(p.y, panStartScreen.y))]
  /\ last' = "panMove" /\ UNCHANGED pvars
  /\ UNCHANGED <<scale, Drag, Tunables, svars>>

panMove(p) ==
  /\ IF ~(mode = "panning" \/ mode = "shiftPanning")
       THEN UNCHANGED translate
     ELSE IF panStartScreen = Null \/ panStartTranslate = Null
       THEN UNCHANGED translate
     ELSE LET dx == RSub(p.x, panStartScreen.x)
              dy == RSub(p.y, panStartScreen.y)
          IN translate' = [x |-> RAdd(panStartTranslate.x, dx),
                           y |-> RAdd(panStartTranslate.y, dy)]
  /\ last' = "panMove" /\ UNCHANGED pvars
  /\ UNCHANGED <<scale, Drag, Tunables, svars>>

\* panEnd that keeps the anchors
panEndKeepAnchors ==
  /\ mode' = "idle"
  /\ last' = "panEnd" /\ UNCHANGED pvars
  /\ UNCHANGED <<scale, translate, panStartScreen, panStartTranslate,
                 minScale, maxScale, wheelPanSpeed, zoomStep, svars>>

panEnd ==
  /\ mode' = "idle"
  /\ panStartScreen' = Null
  /\ panStartTranslate' = Null
  /\ last' = "panEnd" /\ UNCHANGED pvars
  /\ UNCHANGED <<scale, translate, Tunables, svars>>

\* handToolEnable that does not look at the mode
handToolEnableAlways ==
  /\ mode' = "shiftPanning"
  /\ last' = "handToolEnable" /\ UNCHANGED pvars
  /\ UNCHANGED <<scale, translate, panStartScreen, panStartTranslate,
                 minScale, maxScale, wheelPanSpeed, zoomStep, svars>>

handToolEnable ==
  /\ mode' = IF mode = "idle" THEN "shiftPanning" ELSE mode
  /\ last' = "handToolEnable" /\ UNCHANGED pvars
  /\ UNCHANGED <<scale, translate, panStartScreen, panStartTranslate, Tunables, svars>>

\* handToolDisable that ends every drag
handToolDisableAlways ==
  /\ mode' = "idle"
  /\ last' = "handToolDisable" /\ UNCHANGED pvars
  /\ UNCHANGED <<scale, translate, panStartScreen, panStartTranslate, Tunables, svars>>

handToolDisable ==
  /\ mode' = IF mode = "shiftPanning" THEN "idle" ELSE mode
  /\ last' = "handToolDisable" /\ UNCHANGED pvars
  /\ UNCHANGED <<scale, translate, panStartScreen, panStartTranslate, Tunables, svars>>

centerOnWorld(world, toScreenArg) ==
  LET toScreen == IF toScreenArg = Absent THEN Pt(0, 0) ELSE toScreenArg
  IN /\ translate' = [x |-> RSub(toScreen.x, RMul(world.x, scale)),
                      y |-> RSub(toScreen.y, RMul(world.y, scale))]
     /\ last' = "centerOnWorld" /\ UNCHANGED pvars
     /\ UNCHANGED <<scale, Drag, Tunables, svars>>

\* fitScale that takes the larger of the two scales
fitScaleLarger(bounds, viewportPx, paddingArg, lo, hi) ==
  LET padding == IF paddingArg = AbsentNum THEN Num(50) ELSE paddingArg
      aw == RMax(Num(1), RSub(viewportPx.width, RMul(padding, Num(2))))
      ah == RMax(Num(1), RSub(viewportPx.height, RMul(padding, Num(2))))
      bw == RMax(R(1, 1000000), bounds.width)
      bh == RMax(R(1, 1000000), bounds.height)
  IN clamp(RMax(RDiv(aw, bw), RDiv(ah, bh)), lo, hi)

\* the scale zoomToFit chooses
fitScale(bounds, viewportPx, paddingArg, lo, hi) ==
  LET padding == IF paddingArg = AbsentNum THEN Num(50) ELSE paddingArg
      aw == RMax(Num(1), RSub(viewportPx.width, RMul(padding, Num(2))))
      ah == RMax(Num(1), RSub(viewportPx.height, RMul(padding, Num(2))))
      bw == RMax(R(1, 1000000), bounds.width)
      bh == RMax(R(1, 1000000), bounds.height)
      scaleX == RDiv(aw, bw)
      scaleY == RDiv(ah, bh)
  IN clamp(RMin(scaleX, scaleY), lo, hi)

\* zoomToFit that puts the corner of the bounds at the centre
zoomToFitCorner(bounds, viewportPx, paddingArg) ==
  LET next == fitScale(bounds, viewportPx, paddingArg, minScale, maxScale)
  IN /\ scale' = next
     /\ translate' = [x |-> RSub(RDiv(viewportPx.width, Num(2)), RMul(bounds.x, next)),
                      y |-> RSub(RDiv(viewportPx.height, Num(2)), RMul(bounds.y, next))]
     /\ last' = "zoomToFit" /\ UNCHANGED pvars
     /\ UNCHANGED <<mode, panStartScreen, panStartTranslate,
                    minScale, maxScale, wheelPanSpeed, zoomStep, svars>>

zoomToFit(bounds, viewportPx, paddingArg) ==
  LET next == fitScale(bounds, viewportPx, paddingArg, minScale, maxScale)
      centerX == RDiv(viewportPx.width, Num(2))
      centerY == RDiv(viewportPx.height, Num(2))
      boundsCenterX == RAdd(bounds.x, RDiv(bounds.width, Num(2)))
      boundsCenterY == RAdd(bounds.y, RDiv(bounds.height, Num(2)))
  IN /\ scale' = next
     /\ translate' = [x |-> RSub(centerX, RMul(boundsCenterX, next)),
                      y |-> RSub(centerY, RMul(boundsCenterY, next))]
     /\ last' = "zoomToFit" /\ UNCHANGED pvars
     /\ UNCHANGED <<Drag, Tunables, svars>>

resetView ==
  /\ scale' = Num(1)
  /\ translate' = Pt(0, 0)
  /\ mode' = "idle"
  /\ panStartScreen' = Null
  /\ panStartTranslate' = Null
  /\ last' = "resetView" /\ UNCHANGED pvars
  /\ UNCHANGED <<Tunables, svars>>

\* restoreViewport that leaves the interaction state alone
restoreViewportKeepDrag(s, tr) ==
  /\ scale' = clamp(s, minScale, maxScale)
  /\ translate' = [x |-> tr.x, y |-> tr.y]
  /\ last' = "restoreViewport" /\ UNCHANGED pvars
  /\ UNCHANGED <<Drag, Tunables, svars>>

restoreViewport(s, tr) ==
  /\ scale' = clamp(s, minScale, maxScale)
  /\ translate' = [x |-> tr.x, y |-> tr.y]
  /\ mode' = "idle"
  /\ panStartScreen' = Null
  /\ panStartTranslate' = Null
  /\ last' = "restoreViewport" /\ UNCHANGED pvars
  /\ UNCHANGED <<Tunables, svars>>

(***************************************************************************)
(* Shapes slice: shapes, payloads and the shape factory functions.         *)
(* A shape is a record (a JavaScript object); an optional payload field    *)
(* that is not given is not in the payload's domain.                       *)
(***************************************************************************)
Tools ==
  {"select", "frame", "rect", "ellipse", "freedraw", "arrow", "line", "text", "eraser"}
\* null in a string-typed field
JsNull == "null"

\* p.f ?? d
Opt(p, f, d) == IF f \in DOMAIN p /\ p[f] # JsNull THEN p[f] ELSE d

\* Object.assign({}, a, b) / { ...a, ...b }
Merge(a, b) ==
  [f \in DOMAIN a \cup DOMAIN b |-> IF f \in DOMAIN b THEN b[f] ELSE a[f]]

DefaultStroke == "#ffff"
DefaultStrokeWidth == 2

\* makeFrame that takes the stroke of the payload
makeFramePayloadStroke(p, nid) ==
  [id |-> nid, type |-> "frame", x |-> p.x, y |-> p.y, w |-> p.w, h |-> p.h,
   frameNumber |-> p.frameNumber,
   stroke |-> Opt(p, "stroke", "transparent"), strokeWidth |-> 0,
   fill |-> Opt(p, "fill", "rgba(255, 255, 255, 0.05)")]

makeFrame(p, nid) ==
  [id |-> nid, type |-> "frame", x |-> p.x, y |-> p.y, w |-> p.w, h |-> p.h,
   frameNumber |-> p.frameNumber, stroke |-> "transparent", strokeWidth |-> 0,
   fill |-> Opt(p, "fill", "rgba(255, 255, 255, 0.05)")]

makeRect(p, nid) ==
  [id |-> nid, type |-> "rect", x |-> p.x, y |-> p.y, w |-> p.w, h |-> p.h,
   stroke |-> Opt(p, "stroke", DefaultStroke),
   strokeWidth |-> Opt(p, "strokeWidth", DefaultStrokeWidth),
   fill |-> Opt(p, "fill", JsNull)]

makeEllipse(p, nid) ==
  [id |-> nid, type |-> "ellipse", x |-> p.x, y |-> p.y, w |-> p.w, h |-> p.h,
   stroke |-> Opt(p, "stroke", DefaultStroke),
   strokeWidth |-> Opt(p, "strokeWidth", DefaultStrokeWidth),
   fill |-> Opt(p, "fill", JsNull)]

makeFree(p, nid) ==
  [id |-> nid, type |-> "freedraw", points |-> p.points,
   stroke |-> Opt(p, "stroke", DefaultStroke),
   strokeWidth |-> Opt(p, "strokeWidth", DefaultStrokeWidth),
   fill |-> Opt(p, "fill", JsNull)]

makeArrow(p, nid) ==
  [id |-> nid, type |-> "arrow", startX |-> p.startX, startY |-> p.startY,
   endX |-> p.endX, endY |-> p.endY,
   stroke |-> Opt(p, "stroke", DefaultStroke),
   strokeWidth |-> Opt(p, "strokeWidth", DefaultStrokeWidth),
   fill |-> Opt(p, "fill", JsNull)]

makeLine(p, nid) ==
  [id |-> nid, type |-> "line", startX |-> p.startX, startY |-> p.startY,
   endX |-> p.endX, endY |-> p.endY,
   stroke |-> Opt(p, "stroke", DefaultStroke),
   strokeWidth |-> Opt(p, "strokeWidth", DefaultStrokeWidth),
   fill |-> Opt(p, "fill", JsNull)]

makeText(p, nid) ==
  [id |-> nid, type |-> "text", x |-> p.x, y |-> p.y,
   text |-> Opt(p, "text", "Type here..."),
   fontSize |-> Opt(p, "fontSize", 16),
   fontFamily |-> Opt(p, "fontFamily", "Inter, sans-serif"),
   fontWeight |-> Opt(p, "fontWeight", 400),
   fontStyle |-> Opt(p, "fontStyle", "normal"),
   textAlign |-> Opt(p, "textAlign", "left"),
   textDecoration |-> Opt(p, "textDecoration", "none"),
   lineHeight |-> Opt(p, "lineHeight", R(12, 10)),
   letterSpacing |-> Opt(p, "letterSpacing", 0),
   textTransform |-> Opt(p, "textTransform", "none"),
   stroke |-> Opt(p, "stroke", DefaultStroke),
   strokeWidth |-> Opt(p, "strokeWidth", DefaultStrokeWidth),
   fill |-> Opt(p, "fill", "#ffffff")]

\* the id is the payload's when it gives one, a new nanoid otherwise
makeGeneratedUI(p, nid) ==
  [id |-> Opt(p, "id", nid), type |-> "generatedui",
   x |-> p.x, y |-> p.y, w |-> p.w, h |-> p.h,
   uiSpecData |-> p.uiSpecData, sourceFrameId |-> p.sourceFrameId,
   isWorkflowPage |-> Opt(p, "isWorkflowPage", "undefined"),
   stroke |-> "transparent", strokeWidth |-> 0,
   fill |-> Opt(p, "fill", JsNull)]

(***************************************************************************)
(* The entity adapter (createEntityAdapter, selectId = s.id) over the      *)
(* normalized state: ids is the order sequence, entities the id -> shape   *)
(* mapping.  Each operator gives the new <<ids, entities>>.                *)
(***************************************************************************)
Live == DOMAIN entities
Range(q) == {q[i] : i \in DOMAIN q}
Without(q, S) == SelectSeq(q, LAMBDA i : i \notin S)
Drop(ents, S) == [i \in DOMAIN ents \ S |-> ents[i]]
Put(ents, i, e) == [j \in DOMAIN ents \cup {i} |-> IF j = i THEN e ELSE ents[j]]

\* addOne that appends whether or not the id is already a key
addOneAlways(q, ents, entity) ==
  <<Append(q, entity.id), Put(ents, entity.id, entity)>>

\* addOne: an entity whose id is already a key is not added
addOne(q, ents, entity) ==
  IF entity.id \in DOMAIN ents THEN <<q, ents>>
  ELSE <<Append(q, entity.id), Put(ents, entity.id, entity)>>

\* removeMany that forgets to filter the order
removeManyKeepOrder(q, ents, keys) == <<q, Drop(ents, keys)>>

\* removeMany: deletes the keys that exist and filters the order
removeMany(q, ents, keys) ==
  IF keys \cap DOMAIN ents = {} THEN <<q, ents>>
  ELSE <<Without(q, keys), Drop(ents, keys)>>

removeOne(q, ents, key) == removeMany(q, ents, {key})

removeAll(q, ents) == << <<>>, <<>> >>

\* updateOne: merges the changes into the entity; when the merge changes the
\* entity's id the entity moves to the new key (replacing an entity that has it)
\* and the order is rebuilt from the keys of the mapping
updateOne(q, ents, key, changes) ==
  IF key \notin DOMAIN ents THEN <<q, ents>>
  ELSE LET updated == Merge(ents[key], changes)
           newKey == updated.id
       IN IF newKey = key THEN <<q, Put(ents, key, updated)>>
          ELSE <<IF newKey \in DOMAIN ents THEN Without(q, {key})
                 ELSE Append(Without(q, {key}), newKey),
                 Put(Drop(ents, {key}), newKey, updated)>>

(***************************************************************************)
(* Shapes slice: initial state and reducers.  nid is the id nanoid() gives.*)
(***************************************************************************)
ShapesInit ==
  /\ tool = "select"
  /\ ids = <<>>
  /\ entities = <<>>
  /\ selected = {}
  /\ frameCounter = 0

\* adds the made shape through the adapter and leaves the rest alone
AddShape(shape, name) ==
  LET r == addOne(ids, entities, shape)
  IN /\ ids' = r[1]
     /\ entities' = r[2]
     /\ last' = name /\ UNCHANGED pvars
     /\ UNCHANGED <<tool, selected, vvars>>

\* setTool that clears the selection for every tool
setToolAlwaysClears(t) ==
  /\ tool' = t
  /\ selected' = {}
  /\ last' = "setTool" /\ UNCHANGED pvars
  /\ UNCHANGED <<ids, entities, frameCounter, vvars>>

setTool(t) ==
  /\ tool' = t
  /\ selected' = IF t # "select" THEN {} ELSE selected
  /\ last' = "setTool" /\ UNCHANGED pvars
  /\ UNCHANGED <<ids, entities, frameCounter, vvars>>

\* addFrame that numbers the frame and leaves the counter alone
addFrameNoCount(p, nid) ==
  LET frameWithNumber == Merge(p, [frameNumber |-> frameCounter + 1])
  IN /\ UNCHANGED frameCounter
     /\ AddShape(makeFrame(frameWithNumber, nid), "addFrame")

addFrame(p, nid) ==
  LET frameWithNumber == Merge(p, [frameNumber |-> frameCounter + 1])
  IN /\ frameCounter' = frameCounter + 1
     /\ AddShape(makeFrame(frameWithNumber, nid), "addFrame")

addRect(p, nid) ==
  AddShape(makeRect(p, nid), "addRect") /\ UNCHANGED frameCounter

addEllipse(p, nid) ==
  AddShape(makeEllipse(p, nid), "addEllipse") /\ UNCHANGED frameCounter

\* addFreeDrawShape that only rejects absent points
addFreeDrawShapeNoLengthCheck(p, nid) ==
  IF "points" \notin DOMAIN p
    THEN last' = "addFreeDrawShape" /\ UNCHANGED <<svars, vvars, pvars>>
    ELSE AddShape(makeFree(p, nid), "addFreeDrawShape") /\ UNCHANGED frameCounter

addFreeDrawShape(p, nid) ==
  IF "points" \notin DOMAIN p \/ Len(p.points) = 0
    THEN last' = "addFreeDrawShape" /\ UNCHANGED <<svars, vvars, pvars>>
    ELSE AddShape(makeFree(p, nid), "addFreeDrawShape") /\ UNCHANGED frameCounter

addArrow(p, nid) ==
  AddShape(makeArrow(p, nid), "addArrow") /\ UNCHANGED frameCounter

addLine(p, nid) ==
  AddShape(makeLine(p, nid), "addLine") /\ UNCHANGED frameCounter

addText(p, nid) ==
  AddShape(makeText(p, nid), "addText") /\ UNCHANGED frameCounter

addGeneratedUI(p, nid) ==
  AddShape(makeGeneratedUI(p, nid), "addGeneratedUI") /\ UNCHANGED frameCounter

updateShape(id, patch) ==
  LET r == updateOne(ids, entities, id, patch)
  IN /\ ids' = r[1]
     /\ entities' = r[2]
     /\ last' = "updateShape" /\ UNCHANGED pvars
     /\ UNCHANGED <<tool, selected, frameCounter, vvars>>

\* removeShape that leaves the selection alone
removeShapeKeepSelected(id) ==
  LET isFrame == id \in Live /\ entities[id].type = "frame"
      r == removeOne(ids, entities, id)
  IN /\ frameCounter' = IF isFrame
                          THEN (IF frameCounter - 1 > 0 THEN frameCounter - 1 ELSE 0)
                          ELSE frameCounter
     /\ ids' = r[1]
     /\ entities' = r[2]
     /\ last' = "removeShape" /\ UNCHANGED pvars
     /\ UNCHANGED <<tool, selected, vvars>>

\* removeShape that decrements the counter for every live shape
removeShapeAlwaysDecrements(id) ==
  LET r == removeOne(ids, entities, id)
  IN /\ frameCounter' = IF id \in Live
                          THEN (IF frameCounter - 1 > 0 THEN frameCounter - 1 ELSE 0)
                          ELSE frameCounter
     /\ ids' = r[1]
     /\ entities' = r[2]
     /\ selected' = selected \ {id}
     /\ last' = "removeShape" /\ UNCHANGED pvars
     /\ UNCHANGED <<tool, vvars>>

removeShape(id) ==
  LET isFrame == id \in Live /\ entities[id].type = "frame"
      r == removeOne(ids, entities, id)
  IN /\ frameCounter' = IF isFrame
                          THEN (IF frameCounter - 1 > 0 THEN frameCounter - 1 ELSE 0)
                          ELSE frameCounter
     /\ ids' = r[1]
     /\ entities' = r[2]
     /\ selected' = selected \ {id}
     /\ last' = "removeShape" /\ UNCHANGED pvars
     /\ UNCHANGED <<tool, vvars>>

clearAll ==
  LET r == removeAll(ids, entities)
  IN /\ ids' = r[1]
     /\ entities' = r[2]
     /\ selected' = {}
     /\ frameCounter' = 0
     /\ last' = "clearAll" /\ UNCHANGED pvars
     /\ UNCHANGED <<tool, vvars>>

selectShape(id) ==
  /\ selected' = selected \cup {id}
  /\ last' = "selectShape" /\ UNCHANGED pvars
  /\ UNCHANGED <<tool, ids, entities, frameCounter, vvars>>

deselectShape(id) ==
  /\ selected' = selected \ {id}
  /\ last' = "deselectShape" /\ UNCHANGED pvars
  /\ UNCHANGED <<tool, ids, entities, frameCounter, vvars>>

clearSelection ==
  /\ selected' = {}
  /\ last' = "clearSelection" /\ UNCHANGED pvars
  /\ UNCHANGED <<tool, ids, entities, frameCounter, vvars>>

\* selectAll that adds the live ids to the selection
selectAllAdding ==
  /\ selected' = selected \cup Range(ids)
  /\ last' = "selectAll" /\ UNCHANGED pvars
  /\ UNCHANGED <<tool, ids, entities, frameCounter, vvars>>

selectAll ==
  /\ selected' = Range(ids)
  /\ last' = "selectAll" /\ UNCHANGED pvars
  /\ UNCHANGED <<tool, ids, entities, frameCounter, vvars>>

\* deleteSelected that decrements the counter for every deleted frame
deleteSelectedCounting ==
  LET r == removeMany(ids, entities, selected)
      frames == {i \in selected \cap Live : entities[i].type = "frame"}
      c == frameCounter - Cardinality(frames)
  IN /\ ids' = r[1]
     /\ entities' = r[2]
     /\ selected' = {}
     /\ frameCounter' = IF c > 0 THEN c ELSE 0
     /\ last' = "deleteSelected" /\ UNCHANGED pvars
     /\ UNCHANGED <<tool, vvars>>

deleteSelected ==
  LET r == IF selected # {} THEN removeMany(ids, entities, selected)
           ELSE <<ids, entities>>
  IN /\ ids' = r[1]
     /\ entities' = r[2]
     /\ selected' = {}
     /\ last' = "deleteSelected" /\ UNCHANGED pvars
     /\ UNCHANGED <<tool, frameCounter, vvars>>

\* the payload is a whole ShapesState: shapes = [ids, entities]
loadProjectValidating(payload) ==
  /\ ids' = payload.shapes.ids
  /\ entities' = payload.shapes.entities
  /\ tool' = payload.tool
  /\ selected' = payload.selected \cap DOMAIN payload.shapes.entities
  /\ frameCounter' = payload.frameCounter
  /\ last' = "loadProject" /\ UNCHANGED pvars
  /\ UNCHANGED vvars

loadProject(payload) ==
  /\ ids' = payload.shapes.ids
  /\ entities' = payload.shapes.entities
  /\ tool' = payload.tool
  /\ selected' = payload.selected
  /\ frameCounter' = payload.frameCounter
  /\ last' = "loadProject" /\ UNCHANGED pvars
  /\ UNCHANGED vvars

(***************************************************************************)
(* Inputs of the shapes reducers.                                          *)
(***************************************************************************)
\* ids nanoid() may give, and the ids the callers may name
NanoIds == {"a", "b"}
Ids == NanoIds \cup {"g"}
ToolArgs == {"select", "rect"}
BoxPayload == [x |-> 0, y |-> 0, w |-> 100, h |-> 100]
FramePayloads == {BoxPayload, Merge(BoxPayload, [stroke |-> "#000", strokeWidth |-> 3])}
BoxPayloads == {BoxPayload}
LinePayloads == {[startX |-> 0, startY |-> 0, endX |-> 10, endY |-> 10]}
FreePayloads ==
  {[stroke |-> "#000"], [points |-> <<>>], [points |-> <<[x |-> 1, y |-> 2]>>]}
TextPayloads == {[x |-> 0, y |-> 0]}
UIPayload == Merge(BoxPayload, [uiSpecData |-> JsNull, sourceFrameId |-> "a"])
UIPayloads == {UIPayload} \cup {Merge(UIPayload, [id |-> i]) : i \in Ids}
Patches == {[strokeWidth |-> 2]} \cup {[id |-> i] : i \in NanoIds}

\* nanoid() gives an id that no shape has and nothing refers to
FreshIds(pool) == pool \ (Live \cup selected)

(***************************************************************************)
(* The projects slice.  A project summary is a record with the fields _id  *)
(* and name and, optionally, thumbnail; total and the time stamps are      *)
(* integers, null is JsNull for the error strings and Null for lastFetched.*)
(***************************************************************************)
\* largest length of the project list
MaxProjects == 3

ProjectsInit ==
  /\ projects = <<>>
  /\ total = 0
  /\ isLoading = FALSE
  /\ error = JsNull
  /\ lastFetched = Null
  /\ isCreating = FALSE
  /\ createError = JsNull

fetchProjectsStart ==
  /\ isLoading' = TRUE
  /\ error' = JsNull
  /\ last' = "fetchProjectsStart"
  /\ UNCHANGED <<projects, total, lastFetched, isCreating, createError, vvars, svars>>

\* now is the value Date.now() returns
fetchProjectsSuccess(payload, now) ==
  /\ isLoading' = FALSE
  /\ projects' = payload.projects
  /\ total' = payload.total
  /\ error' = JsNull
  /\ lastFetched' = now
  /\ last' = "fetchProjectsSuccess"
  /\ UNCHANGED <<isCreating, createError, vvars, svars>>

fetchProjectsFailure(message) ==
  /\ isLoading' = FALSE
  /\ error' = message
  /\ last' = "fetchProjectsFailure"
  /\ UNCHANGED <<projects, total, lastFetched, isCreating, createError, vvars, svars>>

createProjectStart ==
  /\ isCreating' = TRUE
  /\ createError' = JsNull
  /\ last' = "createProjectStart"
  /\ UNCHANGED <<projects, total, isLoading, error, lastFetched, vvars, svars>>

createProjectSuccess ==
  /\ isCreating' = FALSE
  /\ error' = JsNull
  /\ last' = "createProjectSuccess"
  /\ UNCHANGED <<projects, total, isLoading, lastFetched, createError, vvars, svars>>

createProjectFailure(message) ==
  /\ isCreating' = FALSE
  /\ createError' = message
  /\ last' = "createProjectFailure"
  /\ UNCHANGED <<projects, total, isLoading, error, lastFetched, vvars, svars>>

\* state.total = +1 assigns the number +1
addProject(project) ==
  /\ projects' = <<project>> \o projects
  /\ total' = 1
  /\ last' = "addProject"
  /\ UNCHANGED <<isLoading, error, lastFetched, isCreating, createError, vvars, svars>>

\* findIndex: the first position holding the _id, 0 for none (-1 in the code)
findIndex(q, id) ==
  IF \E i \in DOMAIN q : q[i]._id = id
    THEN CHOOSE i \in DOMAIN q : q[i]._id = id /\ \A j \in 1..(i - 1) : q[j]._id # id
    ELSE 0

updateProject(project) ==
  /\ LET index == findIndex(projects, project._id)
     IN  projects' = IF index # 0
                       THEN [projects EXCEPT ![index] = Merge(projects[index], project)]
                       ELSE projects
  /\ last' = "updateProject"
  /\ UNCHANGED <<total, isLoading, error, lastFetched, isCreating, createError,
                 vvars, svars>>

removeProject(id) ==
  /\ projects' = SelectSeq(projects, LAMBDA project : project._id # id)
  /\ total' = IF total - 1 > 0 THEN total - 1 ELSE 0
  /\ last' = "removeProject"
  /\ UNCHANGED <<isLoading, error, lastFetched, isCreating, createError, vvars, svars>>

clearProjects ==
  /\ projects' = <<>>
  /\ total' = 0
  /\ lastFetched' = Null
  /\ error' = JsNull
  /\ createError' = JsNull
  /\ last' = "clearProjects"
  /\ UNCHANGED <<isLoading, isCreating, vvars, svars>>

clearErrors ==
  /\ error' = JsNull
  /\ createError' = JsNull
  /\ last' = "clearErrors"
  /\ UNCHANGED <<projects, total, isLoading, lastFetched, isCreating, vvars, svars>>

\* ---- inputs of the projects slice ----
ProjectIds == {"p1", "p2"}
ProjectSummaries ==
  {[_id |-> "p1", name |-> "One"],
   [_id |-> "p2", name |-> "Two"],
   [_id |-> "p1", name |-> "Renamed", thumbnail |-> "one.png"]}
ProjectLists ==
  {<<>>, <<[_id |-> "p1", name |-> "One"]>>,
   <<[_id |-> "p1", name |-> "One"], [_id |-> "p2", name |-> "Two"]>>}
\* ProjectsProvider passes the list with total = its length; the reducer also
\* takes a total that counts more than the list holds
FetchPayloads ==
  {[projects |-> q, total |-> Len(q)] : q \in ProjectLists}
    \cup {[projects |-> <<[_id |-> "p2", name |-> "Two"]>>, total |-> 2]}
ErrorMessages == {"Failed to fetch"}
Clock == {1000}

(***************************************************************************)
(* The projects slice on its own.                                          *)
(***************************************************************************)
InitProjects == ViewportInit /\ ShapesInit /\ ProjectsInit /\ last = "init"

ProjectRoom == Len(projects) < MaxProjects

NextProjects ==
  \/ fetchProjectsStart
  \/ \E pl \in FetchPayloads, now \in Clock : fetchProjectsSuccess(pl, now)
  \/ \E m \in ErrorMessages : fetchProjectsFailure(m)
  \/ createProjectStart
  \/ createProjectSuccess
  \/ \E m \in ErrorMessages : createProjectFailure(m)
  \/ \E pr \in ProjectSummaries : ProjectRoom /\ addProject(pr)
  \/ \E pr \in ProjectSummaries : updateProject(pr)
  \/ \E i \in ProjectIds : removeProject(i)
  \/ clearProjects
  \/ clearErrors

SpecProjects == InitProjects /\ [][NextProjects]_vars

(***************************************************************************)
(* The viewport slice on its own.                                          *)
(***************************************************************************)
InitViewport == ViewportInit /\ ShapesInit /\ ProjectsInit /\ last = "init"

\* the part of the state space the model follows
Followed ==
  /\ PtInGrid(translate')
  /\ scale' \in ScalesFollowed \/ RLt(scale', minScale) \/ RLt(maxScale, scale')

NextViewport ==
  \/ \E p \in TranslateArgs : setTranslate(p)
  \/ \E s \in ScaleArgs, o \in ScreenPts \cup {Absent} : setScale(s, o) /\ Followed
  \/ \E f \in Factors, o \in ScreenPts : zoomBy(f, o) /\ Followed
  \/ \E dy \in DeltaYs, o \in ScreenPts : wheelZoom(dy, o) /\ Followed
  \/ \E d \in WheelDeltas : wheelPan(d) /\ Followed
  \/ \E s \in ScreenPts, m \in ViewportModes \cup {AbsentMode} : panStart(s, m)
  \/ \E p \in ScreenPts : panMove(p) /\ Followed
  \/ panEnd
  \/ handToolEnable
  \/ handToolDisable
  \/ \E w \in WorldPts, s \in ScreenPts \cup {Absent} : centerOnWorld(w, s) /\ Followed
  \/ \E b \in BoundsArgs, v \in ViewportPxArgs, p \in PaddingArgs :
       zoomToFit(b, v, p) /\ Followed
  \/ resetView
  \/ \E s \in ScaleArgs, tr \in TranslateArgs : restoreViewport(s, tr)

SpecViewport == InitViewport /\ [][NextViewport]_vars

(***************************************************************************)
(* The shapes slice on its own: every reducer except loadProject.          *)
(***************************************************************************)
InitShapes == ViewportInit /\ ShapesInit /\ ProjectsInit /\ last = "init"

\* room for one more shape / one more frame number
Room == Len(ids) < MaxShapes
CounterRoom == frameCounter < MaxFrameCounter

NextShapes ==
  \/ \E t \in ToolArgs : setTool(t)
  \/ \E p \in FramePayloads, n \in FreshIds(NanoIds) : Room /\ CounterRoom /\ addFrame(p, n)
  \/ \E p \in BoxPayloads, n \in FreshIds(NanoIds) : Room /\ addRect(p, n)
  \/ \E p \in BoxPayloads, n \in FreshIds(NanoIds) : Room /\ addEllipse(p, n)
  \/ \E p \in FreePayloads, n \in FreshIds(NanoIds) : Room /\ addFreeDrawShape(p, n)
  \/ \E p \in LinePayloads, n \in FreshIds(NanoIds) : Room /\ addArrow(p, n)
  \/ \E p \in LinePayloads, n \in FreshIds(NanoIds) : Room /\ addLine(p, n)
  \/ \E p \in TextPayloads, n \in FreshIds(NanoIds) : Room /\ addText(p, n)
  \/ \E p \in UIPayloads, n \in FreshIds(NanoIds) : Room /\ addGeneratedUI(p, n)
  \/ \E i \in Ids, patch \in Patches : updateShape(i, patch)
  \/ \E i \in Ids : removeShape(i)
  \/ clearAll
  \/ \E i \in Ids : selectShape(i)
  \/ \E i \in Ids : deselectShape(i)
  \/ clearSelection
  \/ selectAll
  \/ deleteSelected

SpecShapes == InitShapes /\ [][NextShapes]_vars

(***************************************************************************)
(* The frame reducers on their own: addFrame, removeShape, deleteSelected, *)
(* selectShape, selectAll and clearAll over a store of frames.             *)
(***************************************************************************)
FrameIds == {"a", "b", "c", "d"}
FrameRoom == Len(ids) < MaxFrames /\ frameCounter <= MaxFrames

\* the frameNumber fields of the live shapes, in order
FrameNumbers == [i \in 1 .. Len(ids) |-> entities[ids[i]].frameNumber]

NextFrames ==
  \/ \E p \in FramePayloads, n \in FreshIds(FrameIds) : FrameRoom /\ addFrame(p, n)
  \/ \E i \in FrameIds : removeShape(i)
  \/ deleteSelected
  \/ \E i \in FrameIds : selectShape(i)
  \/ selectAll
  \/ clearAll

SpecFrames == InitShapes /\ [][NextFrames]_vars

(***************************************************************************)
(* One scenario on the initial store: three frames are added, the frame    *)
(* numbered 2 is removed, one more frame is added.                         *)
(***************************************************************************)
ScenarioIds == FrameIds \cup {"e"}

ScenarioAdd ==
  /\ \/ last \in {"init", "addFrame"} /\ Len(ids) < 3
     \/ last = "removeShape"
  /\ \E p \in FramePayloads, n \in FreshIds(ScenarioIds) : addFrame(p, n)

ScenarioRemove ==
  /\ last = "addFrame"
  /\ FrameNumbers = <<1, 2, 3>>
  /\ removeShape(ids[2])

NextScenario == ScenarioAdd \/ ScenarioRemove

SpecScenario == InitShapes /\ [][NextScenario]_vars

(***************************************************************************)
(* One zoom operation on a viewport that restoreViewport has positioned.   *)
(***************************************************************************)
ZoomScales == {R(1, 10), R(1, 2), Num(1), R(3, 2), Num(8)}
ZoomTranslates == {Pt(0, 0), Pt(-100, -100), Pt(30, -20)}
ZoomOrigins == {Pt(100, 100), Pt(40, 25), Pt(0, 0)}
ZoomScaleArgs == {Num(-1), R(1, 4), Num(2), Num(3), Num(100)}
ZoomFactors == {Num(0), R(1, 2), Num(1), Num(2), Num(100)}
ZoomDeltaYs == {-106, -53, 0, 53}
FitBounds ==
  {[x |-> Num(0), y |-> Num(0), width |-> Num(200), height |-> Num(100)],
   [x |-> Num(-1000), y |-> Num(1500), width |-> Num(10000), height |-> Num(1000)],
   [x |-> Num(10), y |-> Num(20), width |-> Num(1), height |-> R(1, 4)],
   [x |-> Num(-30), y |-> Num(0), width |-> Num(100), height |-> Num(400)],
   [x |-> Num(50), y |-> Num(25), width |-> Num(0), height |-> Num(0)]}
FitViewports ==
  {[width |-> Num(1000), height |-> Num(500)],
   [width |-> Num(300), height |-> Num(200)],
   [width |-> R(201, 2), height |-> R(201, 2)]}
FitPaddings == {AbsentNum, Num(0), Num(10), Num(50)}

\* zoomToFit's padding parameter with its default
PaddingOf(paddingArg) == IF paddingArg = AbsentNum THEN Num(50) ELSE paddingArg

InitZoom ==
  /\ scale \in ZoomScales
  /\ translate \in ZoomTranslates
  /\ minScale = R(1, 10)
  /\ maxScale = Num(8)
  /\ mode = "idle"
  /\ panStartScreen = Null
  /\ panStartTranslate = Null
  /\ wheelPanSpeed = R(1, 2)
  /\ zoomStep = R(106, 100)
  /\ ShapesInit
  /\ ProjectsInit
  /\ last = "restoreViewport"

\* no zoom operation has been applied yet
Positioned == last = "restoreViewport"

NextZoom ==
  \/ \E s \in ZoomScaleArgs, o \in ZoomOrigins \cup {Absent} : Positioned /\ setScale(s, o)
  \/ \E f \in ZoomFactors, o \in ZoomOrigins : Positioned /\ zoomBy(f, o)
  \/ \E dy \in ZoomDeltaYs, o \in ZoomOrigins : Positioned /\ wheelZoom(dy, o)
  \/ \E b \in FitBounds, v \in FitViewports, p \in FitPaddings :
       Positioned /\ zoomToFit(b, v, p)

SpecZoom == InitZoom /\ [][NextZoom]_vars

(***************************************************************************)
(* Properties of the viewport slice (SpecViewport).                        *)
(***************************************************************************)
\* C1: in every state the viewport reducers reach, minScale <= scale <= maxScale
C1_ScaleWithinBounds == RLe(minScale, scale) /\ RLe(scale, maxScale)

\* a request above the maximum and one below the minimum have been clamped
C1_Witness ==
  \/ last = "zoomBy" /\ scale = maxScale
  \/ last = "setScale" /\ scale = minScale

C7_AnchorsOnlyWhileDragging ==
  /\ (panStartScreen = Null) <=> (panStartTranslate = Null)
  /\ mode = "idle" => panStartScreen = Null /\ panStartTranslate = Null

\* C10: in a drag (mode panning or shiftPanning, anchors set) panMove(p) sets
\* translate to panStartTranslate + (p - panStartScreen); the anchors are the
\* values panStart snapshotted, and setTranslate, wheelPan, centerOnWorld, the
\* zoom operations and panMove itself leave them and the mode alone
C10_PanMoveFromAnchor ==
  [][/\ \A s \in ScreenPts, m \in {"panning", "shiftPanning", AbsentMode} :
          panStart(s, m) => panStartScreen' = s /\ panStartTranslate' = translate
     /\ last' \in {"setTranslate", "wheelPan", "centerOnWorld", "setScale", "zoomBy",
                   "wheelZoom", "zoomToFit", "panMove"} => UNCHANGED Drag
     /\ \A p \in ScreenPts :
          panMove(p) /\ mode \in {"panning", "shiftPanning"} /\ panStartScreen # Null =>
            translate' = [x |-> RAdd(panStartTranslate.x, RSub(p.x, panStartScreen.x)),
                          y |-> RAdd(panStartTranslate.y, RSub(p.y, panStartScreen.y))]
    ]_vars

\* a panMove of a drag has moved the translate away from the anchor
C10_Witness ==
  /\ last = "panMove"
  /\ mode = "panning"
  /\ panStartTranslate # Null
  /\ translate # panStartTranslate

(***************************************************************************)
(* Properties of the shapes slice (SpecShapes, SpecFrames, SpecScenario).  *)
(***************************************************************************)
\* C2: every selected id is the id of a live shape
C2_SelectionLive == selected \subseteq Live

\* C3: the live frames have pairwise different frameNumbers, each positive
C3_FrameNumbersUnique ==
  /\ \A i, j \in Live :
       (i # j /\ entities[i].type = "frame" /\ entities[j].type = "frame")
         => entities[i].frameNumber # entities[j].frameNumber
  /\ \A i \in Live : entities[i].type = "frame" => entities[i].frameNumber > 0

\* C4: three addFrame calls on the initial store give frames 1, 2, 3; after the
\* second frame is removed, one more addFrame gives a frame numbered 4
C4_NumberAfterRemoval ==
  /\ (Len(ids) = 3 /\ FrameNumbers[2] = 2) => FrameNumbers = <<1, 2, 3>>
  /\ (Len(ids) = 3 /\ FrameNumbers[2] # 2) => FrameNumbers = <<1, 3, 4>>

\* C5: the ids of the order are exactly the keys of the entity mapping
C5_OrderMatchesEntities == Range(ids) = DOMAIN entities

\* a removal has left one of two frames
C5_Witness ==
  \/ last = "deleteSelected" /\ Len(ids) = 1 /\ frameCounter = 2
  \/ last = "removeShape" /\ Len(ids) = 1 /\ frameCounter = 1

(***************************************************************************)
(* Properties of the zoom operations (SpecZoom).                           *)
(***************************************************************************)
\* C8: zoomBy, wheelZoom and setScale with an origin leave the world point under
\* the origin where it was, also when the scale was clamped; from scale 1 and
\* translate (0,0), zoomBy 2 at (100,100) gives scale 2, translate (-100,-100)
C8_ZoomAnchored ==
  [][/\ \A o \in ZoomOrigins :
          (\/ \E f \in ZoomFactors : zoomBy(f, o)
           \/ \E dy \in ZoomDeltaYs : wheelZoom(dy, o)
           \/ \E s \in ZoomScaleArgs : setScale(s, o))
            => screenToWorld(o, translate', scale') = screenToWorld(o, translate, scale)
     /\ (scale = Num(1) /\ translate = Pt(0, 0) /\ zoomBy(Num(2), Pt(100, 100)))
          => scale' = Num(2) /\ translate' = Pt(-100, -100)
    ]_vars

\* a zoom at (100,100) of a moved viewport has hit the maximum scale
C8_Witness ==
  /\ last = "zoomBy"
  /\ scale = maxScale
  /\ translate = Pt(-1500, -1500)

\* C9 as stated: for bounds of positive width and height and a viewport larger
\* than twice the padding, zoomToFit's scale keeps the bounds inside the padded
\* viewport and lies in [minScale, maxScale]
C9_Original ==
  [][\A b \in FitBounds, v \in FitViewports, p \in FitPaddings :
       (/\ zoomToFit(b, v, p)
        /\ RLt(Num(0), b.width) /\ RLt(Num(0), b.height)
        /\ RLt(RMul(Num(2), PaddingOf(p)), v.width)
        /\ RLt(RMul(Num(2), PaddingOf(p)), v.height))
         => /\ RLe(RMul(b.width, scale'), RSub(v.width, RMul(Num(2), PaddingOf(p))))
            /\ RLe(RMul(b.height, scale'), RSub(v.height, RMul(Num(2), PaddingOf(p))))
            /\ RLe(minScale, scale') /\ RLe(scale', maxScale)
    ]_vars

\* C9: zoomToFit's scale lies in [minScale, maxScale]; for bounds of positive
\* width and height it keeps the bounds inside the padded viewport when the
\* padded viewport is at least 1 wide and high and the bounds fit at minScale
C9_FitWithoutCrop ==
  [][\A b \in FitBounds, v \in FitViewports, p \in FitPaddings :
       zoomToFit(b, v, p) =>
         LET availW == RSub(v.width, RMul(Num(2), PaddingOf(p)))
             availH == RSub(v.height, RMul(Num(2), PaddingOf(p)))
         IN /\ RLe(minScale, scale') /\ RLe(scale', maxScale)
            /\ (/\ RLt(Num(0), b.width) /\ RLt(Num(0), b.height)
                /\ RLe(Num(1), availW) /\ RLe(Num(1), availH)
                /\ RLe(RMul(b.width, minScale), availW)
                /\ RLe(RMul(b.height, minScale), availH))
                 => /\ RLe(RMul(b.width, scale'), availW)
                    /\ RLe(RMul(b.height, scale'), availH)
    ]_vars

\* the bounds 200 x 100 have been fitted into 1000 x 500 with padding 50
C9_Witness ==
  /\ last = "zoomToFit"
  /\ scale = Num(4)
  /\ translate = Pt(100, 50)

(***************************************************************************)
(* Properties of single shape-store reducers (SpecShapes).                 *)
(***************************************************************************)
\* new is old without the ids of gone, the others in the order they had
KeepsOrder(old, new, gone) ==
  /\ Range(new) = Range(old) \ gone
  /\ Len(new) = Cardinality(Range(new))
  /\ \A a, b \in DOMAIN new :
       a < b => \E x, y \in DOMAIN old : x < y /\ old[x] = new[a] /\ old[y] = new[b]

\* the shapes other than those of gone are what they were, and no shape is new
KeepsOthers(gone) ==
  /\ DOMAIN entities' = DOMAIN entities \ gone
  /\ \A j \in DOMAIN entities \ gone : entities'[j] = entities[j]

\* C11: after removeShape(id), for a live or a missing, a selected or an
\* unselected id, the id is in neither the entities, the order nor the
\* selection, and every other shape, the order of the others and the selection
\* status of the others are what they were
C11_RemoveShapeExact ==
  [][\A i \in Ids :
       removeShape(i) =>
         /\ i \notin DOMAIN entities'
         /\ i \notin Range(ids')
         /\ i \notin selected'
         /\ KeepsOthers({i})
         /\ KeepsOrder(ids, ids', {i})
         /\ \A j \in Ids \ {i} : (j \in selected') <=> (j \in selected)
    ]_vars

\* a shape has been removed while the other, selected one stays
C11_Witness ==
  /\ last = "removeShape"
  /\ Len(ids) = 1
  /\ selected = {ids[1]}

\* C12: selectAll makes the selection exactly the set of live ids, and a
\* deleteSelected right after selectAll leaves no entity, an empty order and an
\* empty selection
C12_SelectAllThenDelete ==
  [][/\ selectAll => selected' = DOMAIN entities /\ selected' = Range(ids)
     /\ (last = "selectAll" /\ deleteSelected) =>
          DOMAIN entities' = {} /\ Len(ids') = 0 /\ selected' = {}
    ]_vars

\* two frames have been made and the store has been emptied by deleteSelected
C12_Witness ==
  /\ last = "deleteSelected"
  /\ Len(ids) = 0
  /\ frameCounter = 2

\* C13: setTool(t) sets the tool to t, empties the selection when t is not
\* select, keeps the selection when t is select, and keeps entities, order and
\* frameCounter
C13_SetToolSelection ==
  [][\A t \in ToolArgs :
       setTool(t) =>
         /\ tool' = t
         /\ t # "select" => selected' = {}
         /\ t = "select" => selected' = selected
         /\ UNCHANGED <<ids, entities, frameCounter>>
    ]_vars

\* the select tool has been set and a shape is still selected
C13_Witness ==
  /\ last = "setTool"
  /\ tool = "select"
  /\ selected # {}
  /\ selected \subseteq Live

(***************************************************************************)
(* Properties of single viewport reducers (SpecViewport).                  *)
(***************************************************************************)
\* C14: handToolEnable in mode panning or shiftPanning changes nothing of the
\* viewport; in mode idle it sets mode to shiftPanning and changes nothing else
C14_HandToolNoOverride ==
  [][handToolEnable =>
       /\ mode \in {"panning", "shiftPanning"} => UNCHANGED vvars
       /\ mode = "idle" =>
            /\ mode' = "shiftPanning"
            /\ UNCHANGED <<scale, translate, panStartScreen, panStartTranslate, Tunables>>
    ]_vars

\* handToolEnable has been called in the middle of a drag
C14_Witness ==
  /\ last = "handToolEnable"
  /\ mode = "panning"
  /\ panStartScreen # Null

(***************************************************************************)
(* One drag on a viewport that restoreViewport has positioned: panStart,   *)
(* panMove (once or more), panEnd.                                         *)
(***************************************************************************)
PanScales == {Num(1), Num(2)}
PanTranslates == {Pt(0, 0), Pt(-100, -50), Pt(7, 3)}
PanPts == {Pt(10, 10), Pt(40, 25), Pt(0, 0)}
PanModes == {AbsentMode, "panning", "shiftPanning"}

InitPan ==
  /\ scale \in PanScales
  /\ translate \in PanTranslates
  /\ minScale = R(1, 10)
  /\ maxScale = Num(8)
  /\ mode = "idle"
  /\ panStartScreen = Null
  /\ panStartTranslate = Null
  /\ wheelPanSpeed = R(1, 2)
  /\ zoomStep = R(106, 100)
  /\ ShapesInit
  /\ ProjectsInit
  /\ last = "restoreViewport"

NextPan ==
  \/ \E s \in PanPts, m \in PanModes : last = "restoreViewport" /\ panStart(s, m)
  \/ \E p \in PanPts : last \in {"panStart", "panMove"} /\ panMove(p)
  \/ last = "panMove" /\ panEnd

SpecPan == InitPan /\ [][NextPan]_vars

\* C15: from an idle viewport with translate t0, panStart(s) keeps translate and
\* a following panMove(p) gives t0 + (p - s), for s = (10,10) and p = (40,25) an
\* increase of (30,15); panEnd sets mode to idle and both anchors to null and
\* keeps translate and scale
C15_PanRoundTrip ==
  [][/\ \A s \in PanPts, m \in PanModes :
          (mode = "idle" /\ panStart(s, m)) =>
            /\ translate' = translate
            /\ panStartScreen' = s
            /\ panStartTranslate' = translate
     /\ \A p \in PanPts :
          (last = "panStart" /\ panMove(p)) =>
            translate' = [x |-> RAdd(translate.x, RSub(p.x, panStartScreen.x)),
                          y |-> RAdd(translate.y, RSub(p.y, panStartScreen.y))]
     /\ (last = "panStart" /\ panStartScreen = Pt(10, 10) /\ panMove(Pt(40, 25))) =>
          translate' = [x |-> RAdd(translate.x, Num(30)), y |-> RAdd(translate.y, Num(15))]
     /\ panEnd =>
          /\ mode' = "idle"
          /\ panStartScreen' = Null
          /\ panStartTranslate' = Null
          /\ translate' = translate
          /\ scale' = scale
    ]_vars

\* the drag from (10,10) to (40,25) of a viewport at (7,3) has ended
C15_Witness ==
  /\ last = "panEnd"
  /\ mode = "idle"
  /\ panStartScreen = Null
  /\ panStartTranslate = Null
  /\ translate = Pt(37, 18)

(***************************************************************************)
(* More properties of the zoom operations (SpecZoom).                      *)
(***************************************************************************)
\* C16: after zoomToFit the midpoint of the bounds is at the centre of the
\* viewport; bounds {0,0,200,100} in 1000 x 500 with padding 50 give scale 4 and
\* translate (100,50)
C16_FitCentres ==
  [][\A b \in FitBounds, v \in FitViewports, p \in FitPaddings :
       zoomToFit(b, v, p) =>
         /\ worldToScreen([x |-> RAdd(b.x, RDiv(b.width, Num(2))),
                           y |-> RAdd(b.y, RDiv(b.height, Num(2)))], translate', scale')
              = [x |-> RDiv(v.width, Num(2)), y |-> RDiv(v.height, Num(2))]
         /\ (/\ b = [x |-> Num(0), y |-> Num(0), width |-> Num(200), height |-> Num(100)]
             /\ v = [width |-> Num(1000), height |-> Num(500)]
             /\ PaddingOf(p) = Num(50))
              => scale' = Num(4) /\ translate' = Pt(100, 50)
    ]_vars

\* the bounds {-30,0,100,400} have been centred in 300 x 200 without padding
C16_Witness ==
  /\ last = "zoomToFit"
  /\ scale = R(1, 2)
  /\ translate = Pt(140, 0)

(***************************************************************************)
(* More properties of single shape-store reducers (SpecShapes).            *)
(***************************************************************************)
\* C17: addFreeDrawShape with absent or empty points changes nothing of the
\* shape store; with points it appends exactly one freedraw shape at the end of
\* the order and changes nothing else
C17_FreeDrawGate ==
  [][\A p \in FreePayloads, n \in FreshIds(NanoIds) :
       addFreeDrawShape(p, n) =>
         IF "points" \notin DOMAIN p \/ p.points = <<>>
           THEN UNCHANGED svars
           ELSE /\ ids' = ids \o <<n>>
                /\ DOMAIN entities' = DOMAIN entities \cup {n}
                /\ entities'[n].type = "freedraw"
                /\ entities'[n].id = n
                /\ \A j \in DOMAIN entities : entities'[j] = entities[j]
                /\ UNCHANGED <<selected, tool, frameCounter>>
    ]_vars

\* a freedraw shape has been appended behind another shape
C17_Witness ==
  /\ last = "addFreeDrawShape"
  /\ Len(ids) = 2
  /\ entities[ids[2]].type = "freedraw"
  /\ entities[ids[1]].type # "freedraw"

(***************************************************************************)
(* The shape store with loadProject: a project is loaded, frames are       *)
(* added, shapes are selected and removed.                                 *)
(***************************************************************************)
LoadedFrame(i, n) == makeFrame(Merge(BoxPayload, [frameNumber |-> n]), i)
LoadedRect(i) == makeRect(BoxPayload, i)

\* the payload of loadProject for the shapes q (in order), the selection sel and
\* the counter c
Project(q, sel, c) ==
  [shapes |-> [ids |-> [k \in DOMAIN q |-> q[k].id],
               entities |-> [i \in {q[k].id : k \in DOMAIN q} |->
                               q[CHOOSE k \in DOMAIN q : q[k].id = i]]],
   tool |-> "select", selected |-> sel, frameCounter |-> c]

LoadPayloads ==
  {Project(<<>>, {}, 0),
   Project(<<LoadedFrame("a", 1)>>, {}, 0),
   Project(<<LoadedFrame("a", 1), LoadedRect("b")>>, {"b"}, 1),
   Project(<<LoadedFrame("a", 1), LoadedFrame("b", 2)>>, {"a"}, 1),
   Project(<<LoadedRect("b"), LoadedFrame("a", 3)>>, {}, 5),
   Merge(Project(<<LoadedRect("a")>>, {"g"}, 0), [tool |-> "rect"])}

NextLoaded ==
  \/ \E pl \in LoadPayloads : loadProject(pl)
  \/ \E p \in FramePayloads, n \in FreshIds(NanoIds) : Room /\ CounterRoom /\ addFrame(p, n)
  \/ \E i \in Ids : removeShape(i)
  \/ \E i \in Ids : selectShape(i)
  \/ deleteSelected

SpecLoaded == InitShapes /\ [][NextLoaded]_vars

\* C18: removeShape(id) of a live frame sets frameCounter to
\* max(0, frameCounter - 1), removeShape of a live shape that is no frame or of
\* a missing id keeps frameCounter; frameCounter is a non-negative integer in
\* every state (here also after loadProject with a non-negative counter)
C18_RemoveShapeCounter ==
  /\ [](frameCounter \in Nat)
  /\ [][\A i \in Ids :
          removeShape(i) =>
            frameCounter' =
              IF i \in DOMAIN entities /\ entities[i].type = "frame"
                THEN (IF frameCounter >= 1 THEN frameCounter - 1 ELSE 0)
                ELSE frameCounter
       ]_vars

\* a removal has brought the counter to 0 while a frame is live, so that the
\* next removal of a frame meets the floor
C18_Witness ==
  /\ last = "removeShape"
  /\ frameCounter = 0
  /\ Len(ids) = 1
  /\ entities[ids[1]].type = "frame"

(***************************************************************************)
(* Properties of deleteSelected and addFrame (SpecShapes).                 *)
(***************************************************************************)
\* C19: deleteSelected removes every selected shape from the entities and the
\* order, empties the selection and keeps frameCounter and tool, also when frames
\* are removed; the unselected shapes and their order are what they were
C19_DeleteSelectedExact ==
  [][deleteSelected =>
       /\ KeepsOthers(selected)
       /\ KeepsOrder(ids, ids', selected)
       /\ selected' = {}
       /\ UNCHANGED <<frameCounter, tool>>
    ]_vars

\* one of two frames has been deleted and the counter is still 2
C19_Witness ==
  /\ last = "deleteSelected"
  /\ selected = {}
  /\ Len(ids) = 1
  /\ entities[ids[1]].type = "frame"
  /\ frameCounter = 2

\* C20: addFrame adds one to frameCounter and appends one new frame whose
\* frameNumber is the new counter, whose stroke is transparent and whose
\* strokeWidth is 0 whatever the payload says; the shapes there were, the
\* selection and the tool are unchanged
C20_AddFrameExact ==
  [][\A p \in FramePayloads, n \in FreshIds(NanoIds) :
       addFrame(p, n) =>
         /\ frameCounter' = frameCounter + 1
         /\ ids' = ids \o <<n>>
         /\ DOMAIN entities' = DOMAIN entities \cup {n}
         /\ entities'[n].type = "frame"
         /\ entities'[n].id = n
         /\ entities'[n].frameNumber = frameCounter'
         /\ entities'[n].stroke = "transparent"
         /\ entities'[n].strokeWidth = 0
         /\ \A j \in DOMAIN entities : entities'[j] = entities[j]
         /\ UNCHANGED <<selected, tool>>
    ]_vars

\* a first frame has been appended behind a rectangle
C20_Witness ==
  /\ last = "addFrame"
  /\ Len(ids) = 2
  /\ entities[ids[1]].type = "rect"
  /\ entities[ids[2]].type = "frame"
  /\ entities[ids[2]].frameNumber = 1

\* C21: loadProject(payload) replaces the shape store (ids and entities), the
\* tool, the selection and the frame counter by the payload's values as they
\* are; nothing is validated, so the selection may afterwards name ids that no
\* shape has
C21_LoadProjectReplaces ==
  [][\A pl \in LoadPayloads :
       loadProject(pl) =>
         /\ ids' = pl.shapes.ids
         /\ entities' = pl.shapes.entities
         /\ tool' = pl.tool
         /\ selected' = pl.selected
         /\ frameCounter' = pl.frameCounter
    ]_vars

C21_Witness ==
  /\ last = "loadProject"
  /\ selected = {"g"}
  /\ "g" \notin Live
  /\ tool = "rect"
  /\ ids = <<"a">>

\* C22: updateShape(id, patch) with an id that no live shape has leaves the
\* whole shape store unchanged; with a live id it changes only the patched
\* fields of that one entity (every other entity, the order, the tool, the
\* selection and the frame counter stay as they are)
C22_UpdateShapeOnlyPatched ==
  [][\A i \in Ids, patch \in Patches :
       updateShape(i, patch) =>
         IF i \notin Live
           THEN UNCHANGED svars
           ELSE /\ DOMAIN entities' = DOMAIN entities
                /\ entities'[i] = Merge(entities[i], patch)
                /\ \A j \in Live \ {i} : entities'[j] = entities[j]
                /\ UNCHANGED <<ids, tool, selected, frameCounter>>
    ]_vars

C24_RestoreViewport ==
  [][\A s \in ScaleArgs, tr \in TranslateArgs :
       restoreViewport(s, tr) =>
         /\ scale' = IF RLt(s, minScale) THEN minScale
                     ELSE IF RLt(maxScale, s) THEN maxScale ELSE s
         /\ translate' = tr
         /\ mode' = "idle"
         /\ panStartScreen' = Null
         /\ panStartTranslate' = Null
         /\ UNCHANGED Tunables
    ]_vars

C24_Witness ==
  /\ last = "restoreViewport"
  /\ scale = maxScale
  /\ translate = Pt(-100, -50)
  /\ mode = "idle"
  /\ panStartScreen = Null

\* C25: panMove changes nothing of the viewport when there is no drag to
\* follow: when mode is idle, and when an anchor is null, as in shiftPanning
\* entered through handToolEnable with no panStart
C25_PanMoveWithoutDrag ==
  [][\A p \in ScreenPts :
       (panMove(p) /\ (mode = "idle" \/ panStartScreen = Null \/ panStartTranslate = Null))
         => UNCHANGED vvars
    ]_vars

C25_Witness ==
  /\ last = "panMove"
  /\ mode = "shiftPanning"
  /\ panStartScreen = Null
  /\ panStartTranslate = Null

\* the live shapes that are frames
LiveFrames == {i \in Live : entities[i].type = "frame"}

\* C26: in every state reached from the initial shape store without loadProject
\* and without a patch that changes a shape's type, frameCounter is at least
\* the number of live frame shapes
C26_CounterCoversFrames == frameCounter >= Cardinality(LiveFrames)

C26_Witness ==
  /\ last = "removeShape"
  /\ frameCounter = 1
  /\ Cardinality(LiveFrames) = 1
  /\ Len(ids) = 1

\* C27: updateShape(id, patch) never changes the set of live ids, the order,
\* the selection, the tool or the frame counter, also for a patch that carries
\* an id other than the target's
C27_UpdateShapeKeepsIds ==
  [][\A i \in Ids, patch \in Patches :
       updateShape(i, patch) =>
         /\ Live' = Live
         /\ UNCHANGED <<ids, selected, tool, frameCounter>>
    ]_vars

\* C28: in every state reached from the initial shape store without
\* loadProject the order holds no id twice; addGeneratedUI with an explicit id
\* that a live shape already has appends nothing to the order and keeps the
\* number of entities
C28_OrderWithoutDuplicates ==
  /\ [](\A k1, k2 \in DOMAIN ids : ids[k1] = ids[k2] => k1 = k2)
  /\ [][last' = "addGeneratedUI" =>
          \A p \in UIPayloads, n \in NanoIds :
            ("id" \in DOMAIN p /\ p.id \in Live /\ addGeneratedUI(p, n)) =>
              /\ ids' = ids
              /\ Cardinality(Live') = Cardinality(Live)
       ]_vars

C28_Witness ==
  /\ last = "addGeneratedUI"
  /\ Len(ids) = 1
  /\ entities[ids[1]].type = "rect"

\* C29: setTranslate, wheelPan, setScale, zoomBy, wheelZoom, centerOnWorld and
\* zoomToFit never change mode, panStartScreen or panStartTranslate: in the
\* middle of a drag the drag stays active with its anchors, in idle the
\* viewport stays idle
C29_NavigationKeepsDrag ==
  [][last' \in {"setTranslate", "wheelPan", "setScale", "zoomBy", "wheelZoom",
                "centerOnWorld", "zoomToFit"}
       => UNCHANGED <<mode, panStartScreen, panStartTranslate>>
    ]_vars

C29_Witness ==
  /\ last = "wheelPan"
  /\ mode = "panning"
  /\ panStartScreen # Null
  /\ panStartTranslate # Null
  /\ translate # panStartTranslate

\* C30: addProject puts the new project at the front of the list and increases
\* total by exactly one, so a total that equals the length of the list (as
\* after fetchProjectsSuccess with total = list length) still equals it after
\* addProject
C30_AddProjectCounts ==
  [][\A pr \in ProjectSummaries :
       addProject(pr) =>
         /\ projects' = <<pr>> \o projects
         /\ total' = total + 1
         /\ total = Len(projects) => total' = Len(projects')
    ]_vars

====
